---- MODULE Spec2Model ----
(***************************************************************************)
(* Terminal diary: the storage contract and its two backends.              *)
(*                                                                         *)
(* SQLiteStorage keeps one table `entries` (a row per entry, tags joined   *)
(* with ","), JSONStorage keeps one document holding a list of entry       *)
(* records.  The same sequence of calls is applied to both backends, so    *)
(* that their behaviour can be compared call by call.                      *)
(*                                                                         *)
(* Text is a sequence of one-character strings.  A Python dict is a record *)
(* whose DOMAIN is the set of keys that are present.  Dates and            *)
(* timestamps are naturals ordered as the "%Y-%m-%d" / isoformat() strings *)
(* they stand for are ordered by string comparison.  Ids are naturals.     *)
(* get_entry's None is the empty sequence, a found entry a sequence of     *)
(* length one.  uuid4() hands out an id that was never handed out before;  *)
(* datetime.utcnow() never runs backwards, and two calls may read the same *)
(* time.                                                                   *)
(***************************************************************************)
EXTENDS Naturals, Sequences, FiniteSets, TLC

VARIABLES rows, doc, clock, nextUuid, log, preRows, preDoc, lastRead,
          file, procs, txn, storage, pc

vars == <<rows, doc, clock, nextUuid, log, preRows, preDoc, lastRead,
          file, procs, txn, storage, pc>>

\* The steps of the calls in progress: the text of the JSON file, the
\* position of each process that is inside a call on it, and the open
\* transaction of the SQLite connection.
ioVars == <<file, procs, txn>>

\* The interactive program: the backend it was started with and the place
\* of its menu loop.
appVars == <<storage, pc>>

\* Number of storage calls made in one run.
MaxOps == 3

-----------------------------------------------------------------------------
\* Text helpers

\* str.lower() / SQLite's ASCII case folding, on the characters used here.
LowerChar(c) ==
    CASE c = "W" -> "w"
      [] c = "X" -> "x"
      [] c = "Y" -> "y"
      [] c = "E" -> "e"
      [] c = "S" -> "s"
      [] OTHER -> c

Lower(s) == [i \in 1..Len(s) |-> LowerChar(s[i])]

\* Python's `needle in hay` on str.
Contains(hay, needle) ==
    \E i \in 0..Len(hay) :
        /\ i + Len(needle) <= Len(hay)
        /\ SubSeq(hay, i + 1, i + Len(needle)) = needle

\* ",".join(tags)
RECURSIVE Join(_)
Join(tags) ==
    IF Len(tags) = 0 THEN <<>>
    ELSE IF Len(tags) = 1 THEN tags[1]
    ELSE tags[1] \o <<",">> \o Join(Tail(tags))

\* s.split(",")
RECURSIVE Split(_)
Split(s) ==
    IF \A i \in 1..Len(s) : s[i] # ","
    THEN <<s>>
    ELSE LET k == CHOOSE i \in 1..Len(s) :
                      s[i] = "," /\ \A j \in 1..(i - 1) : s[j] # ","
         IN  <<SubSeq(s, 1, k - 1)>> \o Split(SubSeq(s, k + 1, Len(s)))

\* SQLite's  text LIKE pattern : "%" matches any run of characters, "_" any
\* one character, every other character itself, ignoring ASCII case.
RECURSIVE LikeMatch(_, _)
LikeMatch(pat, s) ==
    IF Len(pat) = 0 THEN Len(s) = 0
    ELSE IF Head(pat) = "%"
         THEN \E k \in 0..Len(s) : LikeMatch(Tail(pat), SubSeq(s, k + 1, Len(s)))
         ELSE /\ Len(s) > 0
              /\ \/ Head(pat) = "_"
                 \/ LowerChar(Head(pat)) = LowerChar(Head(s))
              /\ LikeMatch(Tail(pat), Tail(s))

\* dict.get(key, default)
Get(d, key, default) == IF key \in DOMAIN d THEN d[key] ELSE default

\* Return values: an id, a boolean, or a raised exception.
RetId(i) == [status |-> "ok", id |-> i, ok |-> TRUE]
RetBool(b) == [status |-> "ok", id |-> 0, ok |-> b]
Raise(e) == [status |-> e, id |-> 0, ok |-> FALSE]

Indices(s) == 1..Len(s)
Ids(s) == {s[i].id : i \in Indices(s)}

\* Comparison of sort keys: tuples of equal length, compared item by item.
KeyGt(a, b) ==
    \E i \in 1..Len(a) : a[i] > b[i] /\ \A j \in 1..(i - 1) : a[j] = b[j]

\* sorted(s, key=..., reverse=True), key[i] being the key of s[i]: descending
\* by key, entries with equal keys in their original order (Python's sort is
\* stable, also when reversed).
StableSortDesc(s, key) ==
    LET n == Len(s)
        \* pos[i]: the place of s[i] in the result
        pos == SubSeq([i \in 1..n |-> 1 + Cardinality({j \in 1..n :
                          \/ KeyGt(key[j], key[i])
                          \/ (key[j] = key[i] /\ j < i)})], 1, n)
    IN  SubSeq([k \in 1..n |-> s[CHOOSE i \in 1..n : pos[i] = k]], 1, n)

\* The orders in which n rows can be arranged; a store never holds more
\* entries than calls were made.
Arrangements ==
    [n \in 0..MaxOps |->
        {p \in [1..n -> 1..n] : \A a, b \in 1..n : a # b => p[a] # p[b]}]

\* SELECT ... ORDER BY ... DESC, key[i] being the ORDER BY columns of s[i]:
\* every arrangement of the selected rows in which no row precedes a row with
\* a greater key; SQL leaves the order of rows with equal keys open.
OrderByDesc(s, key) ==
    LET n == Len(s)
    IN  {[k \in 1..n |-> s[p[k]]] : p \in {q \in Arrangements[n] :
            \A a, b \in 1..n : a < b => ~KeyGt(key[q[b]], key[q[a]])}}

-----------------------------------------------------------------------------
\* SQLiteStorage: `rows` is the table `entries` in rowid order.

\* SqlAddEntry with a placeholder for a missing date.
SqlAddEntry_DateDefault(table, entry, uuid, now) ==
    LET entry_id == Get(entry, "id", uuid)
    IN  IF entry_id \in Ids(table)
        THEN [rows |-> table, ret |-> Raise("IntegrityError")]
        ELSE [rows |-> Append(table,
                         [id |-> entry_id,
                          date |-> Get(entry, "date", 0),
                          title |-> Get(entry, "title", <<>>),
                          body |-> Get(entry, "body", <<>>),
                          mood |-> Get(entry, "mood", <<>>),
                          tags |-> Join(Get(entry, "tags", <<>>)),
                          created_at |-> now,
                          updated_at |-> now]),
              ret |-> RetId(entry_id)]

SqlAddEntry(table, entry, uuid, now) ==
    LET entry_id == Get(entry, "id", uuid)
    IN  IF "date" \notin DOMAIN entry
        THEN [rows |-> table, ret |-> Raise("KeyError")]
        ELSE IF entry_id \in Ids(table)
        THEN \* id TEXT PRIMARY KEY
             [rows |-> table, ret |-> Raise("IntegrityError")]
        ELSE [rows |-> Append(table,
                         [id |-> entry_id,
                          date |-> entry.date,
                          title |-> Get(entry, "title", <<>>),
                          body |-> Get(entry, "body", <<>>),
                          mood |-> Get(entry, "mood", <<>>),
                          tags |-> Join(Get(entry, "tags", <<>>)),
                          created_at |-> now,
                          updated_at |-> now]),
              ret |-> RetId(entry_id)]

RowToEntry(row) ==
    [id |-> row.id,
     date |-> row.date,
     title |-> row.title,
     body |-> row.body,
     mood |-> row.mood,
     tags |-> IF Len(row.tags) > 0 THEN Split(row.tags) ELSE <<>>,
     created_at |-> row.created_at,
     updated_at |-> row.updated_at]

RowsToEntries(rs) == SubSeq([i \in 1..Len(rs) |-> RowToEntry(rs[i])], 1, Len(rs))

SqlGetEntry(table, entry_id) ==
    LET hit == SelectSeq(table, LAMBDA r : r.id = entry_id)
    IN  IF Len(hit) > 0 THEN <<RowToEntry(hit[1])>> ELSE <<>>

SqlGetEntriesByDate(table, date_str) ==
    {RowsToEntries(rs) :
        rs \in LET sel == SelectSeq(table, LAMBDA r : r.date = date_str)
               IN  OrderByDesc(sel, [i \in 1..Len(sel) |-> <<sel[i].created_at>>])}

SqlSearchEntries(table, keyword) ==
    LET like == <<"%">> \o keyword \o <<"%">>
    IN  {RowsToEntries(rs) :
            rs \in LET sel == SelectSeq(table, LAMBDA r :
                                  \/ LikeMatch(like, r.title)
                                  \/ LikeMatch(like, r.body)
                                  \/ LikeMatch(like, r.tags))
                   IN  OrderByDesc(sel, [i \in 1..Len(sel) |-> <<sel[i].date>>])}

SqlListEntries(table) ==
    {RowsToEntries(rs) :
        rs \in OrderByDesc(table,
                  [i \in 1..Len(table) |-> <<table[i].date, table[i].created_at>>])}

SqlUpdateEntry(table, entry_id, updated, now) ==
    IF "date" \notin DOMAIN updated
    THEN [rows |-> table, ret |-> Raise("KeyError")]
    ELSE [rows |-> [i \in 1..Len(table) |->
                      IF table[i].id = entry_id
                      THEN [table[i] EXCEPT
                              !.date = updated.date,
                              !.title = Get(updated, "title", <<>>),
                              !.body = Get(updated, "body", <<>>),
                              !.mood = Get(updated, "mood", <<>>),
                              !.tags = Join(Get(updated, "tags", <<>>)),
                              !.updated_at = now]
                      ELSE table[i]],
          ret |-> RetBool(entry_id \in Ids(table))]

SqlDeleteEntry(table, entry_id) ==
    [rows |-> SelectSeq(table, LAMBDA r : r.id # entry_id),
     ret |-> RetBool(entry_id \in Ids(table))]

SqlExportAll(table) == SqlListEntries(table)

-----------------------------------------------------------------------------
\* JSONStorage: `doc` is the list under the document's "entries" key.

JsonAddEntry(entries, entry, uuid, now) ==
    LET entry_id == Get(entry, "id", uuid)
    IN  IF "date" \notin DOMAIN entry
        THEN [doc |-> entries, ret |-> Raise("KeyError")]
        ELSE [doc |-> Append(entries,
                        [id |-> entry_id,
                         date |-> entry.date,
                         title |-> Get(entry, "title", <<>>),
                         body |-> Get(entry, "body", <<>>),
                         mood |-> Get(entry, "mood", <<>>),
                         tags |-> Get(entry, "tags", <<>>),
                         created_at |-> now,
                         updated_at |-> now]),
              ret |-> RetId(entry_id)]

JsonGetEntry(entries, entry_id) ==
    LET hit == SelectSeq(entries, LAMBDA e : e.id = entry_id)
    IN  IF Len(hit) > 0 THEN <<hit[1]>> ELSE <<>>

JsonGetEntriesByDate(entries, date_str) ==
    SelectSeq(entries, LAMBDA e : e.date = date_str)

\* JsonSearchEntries sorted as list_entries sorts.
JsonSearchEntries_ByCreated(entries, keyword) ==
    LET keyword_lower == Lower(keyword)
        res == SelectSeq(entries, LAMBDA e :
                   \/ Contains(Lower(e.title), keyword_lower)
                   \/ Contains(Lower(e.body), keyword_lower)
                   \/ \E t \in 1..Len(e.tags) : Contains(Lower(e.tags[t]), keyword_lower))
    IN  StableSortDesc(res, [i \in 1..Len(res) |-> <<res[i].date, res[i].created_at>>])

JsonSearchEntries(entries, keyword) ==
    LET keyword_lower == Lower(keyword)
        res == SelectSeq(entries, LAMBDA e :
                   \/ Contains(Lower(e.title), keyword_lower)
                   \/ Contains(Lower(e.body), keyword_lower)
                   \/ \E t \in 1..Len(e.tags) : Contains(Lower(e.tags[t]), keyword_lower))
    IN  StableSortDesc(res, [i \in 1..Len(res) |-> <<res[i].date>>])

\* JsonListEntries with created_at left out of the sort key.
JsonListEntries_DateOnly(entries) ==
    StableSortDesc(entries, [i \in 1..Len(entries) |-> <<entries[i].date>>])

JsonListEntries(entries) ==
    StableSortDesc(entries,
        [i \in 1..Len(entries) |-> <<entries[i].date, entries[i].created_at>>])

\* JsonUpdateEntry that also stamps created_at.
JsonUpdateEntry_TouchCreated(entries, entry_id, updated, now) ==
    IF entry_id \notin Ids(entries)
    THEN [doc |-> entries, ret |-> RetBool(FALSE)]
    ELSE IF "date" \notin DOMAIN updated
    THEN [doc |-> entries, ret |-> Raise("KeyError")]
    ELSE LET i == CHOOSE k \in 1..Len(entries) :
                     /\ entries[k].id = entry_id
                     /\ \A j \in 1..(k - 1) : entries[j].id # entry_id
         IN  [doc |-> [entries EXCEPT ![i] =
                         [@ EXCEPT
                            !.date = updated.date,
                            !.title = Get(updated, "title", <<>>),
                            !.body = Get(updated, "body", <<>>),
                            !.mood = Get(updated, "mood", <<>>),
                            !.tags = Get(updated, "tags", <<>>),
                            !.created_at = now,
                            !.updated_at = now]],
              ret |-> RetBool(TRUE)]

JsonUpdateEntry(entries, entry_id, updated, now) ==
    IF entry_id \notin Ids(entries)
    THEN [doc |-> entries, ret |-> RetBool(FALSE)]
    ELSE IF "date" \notin DOMAIN updated
    THEN [doc |-> entries, ret |-> Raise("KeyError")]
    ELSE LET i == CHOOSE k \in 1..Len(entries) :
                     /\ entries[k].id = entry_id
                     /\ \A j \in 1..(k - 1) : entries[j].id # entry_id
         IN  [doc |-> [entries EXCEPT ![i] =
                         [@ EXCEPT
                            !.date = updated.date,
                            !.title = Get(updated, "title", <<>>),
                            !.body = Get(updated, "body", <<>>),
                            !.mood = Get(updated, "mood", <<>>),
                            !.tags = Get(updated, "tags", <<>>),
                            !.updated_at = now]],
              ret |-> RetBool(TRUE)]

\* JsonDeleteEntry without the length comparison.
JsonDeleteEntry_NoCheck(entries, entry_id) ==
    [doc |-> SelectSeq(entries, LAMBDA e : e.id # entry_id),
     ret |-> RetBool(TRUE)]

JsonDeleteEntry(entries, entry_id) ==
    LET new_entries == SelectSeq(entries, LAMBDA e : e.id # entry_id)
    IN  IF Len(new_entries) = Len(entries)
        THEN [doc |-> entries, ret |-> RetBool(FALSE)]
        ELSE [doc |-> new_entries, ret |-> RetBool(TRUE)]

JsonExportAll(entries) == JsonListEntries(entries)

-----------------------------------------------------------------------------
\* Export to a folder

\* str.isalnum() on the characters used here.
Alnum == {"a", "k", "o", "w", "x", "y", "W", "X"}

\* str.rstrip()
RECURSIVE RStrip(_)
RStrip(s) ==
    IF Len(s) > 0 /\ s[Len(s)] = " " THEN RStrip(SubSeq(s, 1, Len(s) - 1)) ELSE s

filename_safe(s) ==
    RStrip(SelectSeq(s, LAMBDA c : c \in Alnum \/ c \in {" ", "-", "_"}))

\* The file name export_all_to_folder gives entry e: "<date>-<safe title>",
\* the id standing in for an empty title, or the bare id when nothing of the
\* title is left.  A name built from the id has the empty title here and a
\* name built from the title has id 0, date 0 marks the bare id.
ExportName(e) ==
    IF Len(e.title) = 0
    THEN [date |-> e.date, title |-> <<>>, id |-> e.id]
    ELSE IF Len(filename_safe(e.title)) > 0
    THEN [date |-> e.date, title |-> filename_safe(e.title), id |-> 0]
    ELSE [date |-> 0, title |-> <<>>, id |-> e.id]

\* The folder after export_all_to_folder(entries, folder): for each name the
\* entry that was written to it last, open(path, "w") replacing the file.
export_all_to_folder(entries) ==
    [p \in {ExportName(entries[i]) : i \in 1..Len(entries)} |->
        entries[CHOOSE i \in 1..Len(entries) :
                   /\ ExportName(entries[i]) = p
                   /\ \A j \in (i + 1)..Len(entries) : ExportName(entries[j]) # p]]

-----------------------------------------------------------------------------
\* The calls made on the two stores.

\* Drafts handed to add_entry and update_entry.
Drafts ==
    { [date |-> 1],
      [date |-> 2, title |-> <<"W", "o">>, body |-> <<"a">>, mood |-> <<"o", "k">>,
       tags |-> << <<"x">>, <<"y">> >>],
      [date |-> 1, title |-> <<"_">>, body |-> <<"w", "o">>, mood |-> <<>>,
       tags |-> << <<>> >>],
      [date |-> 2, title |-> <<>>, body |-> <<>>, mood |-> <<"o", "k">>,
       tags |-> << <<"X">> >>] }

\* Keywords handed to search_entries.
Keywords == { <<"w", "o">>, <<"x", ",", "y">>, <<"_">>, <<"x">> }

Dates == {1, 2}

\* Ids returned by earlier add_entry calls.
KnownIds == {log[i].json.id : i \in {k \in 1..Len(log) :
                 log[k].op = "add" /\ log[k].json.status = "ok"}}

\* Ids a caller may ask for: the known ones and one that was never issued.
AskedIds == KnownIds \cup {nextUuid}

\* datetime.utcnow(): the time of the previous call or later.
Nows == {clock, clock + 1}

\* Init with stores that are created holding a sample entry.
Init_Sample ==
    LET sample == [id |-> 0, date |-> 1, title |-> <<"w", "o">>, body |-> <<>>,
                   mood |-> <<>>, created_at |-> 0, updated_at |-> 0]
    IN  /\ rows = <<sample @@ [tags |-> <<>>]>>
        /\ doc = <<sample @@ [tags |-> <<>>]>>
        /\ clock = 0
        /\ nextUuid = 1
        /\ log = <<>>
        /\ preRows = <<>>
        /\ preDoc = <<>>
        /\ lastRead = "none"
        /\ file = <<>> /\ procs = <<>> /\ txn = <<>>
        /\ storage = "both" /\ pc = "off"

Init ==
    /\ rows = <<>>
    /\ doc = <<>>
    /\ clock = 0
    /\ nextUuid = 1
    /\ log = <<>>
    /\ preRows = <<>>
    /\ preDoc = <<>>
    /\ lastRead = "none"
    /\ file = <<>> /\ procs = <<>> /\ txn = <<>>
    /\ storage = "both" /\ pc = "off"

Add(entry, now) ==
    LET s == SqlAddEntry(rows, entry, nextUuid, now)
        j == JsonAddEntry(doc, entry, nextUuid, now)
    IN  /\ Len(log) < MaxOps
        /\ rows' = s.rows
        /\ doc' = j.doc
        /\ clock' = now
        /\ nextUuid' = nextUuid + 1
        /\ log' = Append(log, [op |-> "add", entry |-> entry,
                               sql |-> s.ret, json |-> j.ret])
        /\ preRows' = rows
        /\ preDoc' = doc
        /\ lastRead' = "none"
        /\ UNCHANGED <<ioVars, appVars>>

\* A draft that lacks the required "date" key.
Undated == [title |-> <<"W", "o">>]

\* add_entry with a draft: one as DiaryApp.add_new_entry builds it, or one
\* without a date.
AddEntry == \E d \in Drafts \cup {Undated}, now \in Nows : Add(d, now)

\* add_entry with an entry that carries an "id" key, such as one that
\* get_entry or export_all returned.
AddEntryWithId ==
    \E d \in Drafts, i \in KnownIds, now \in Nows : Add(d @@ [id |-> i], now)

UpdateEntry ==
    \E i \in AskedIds, d \in Drafts, now \in Nows :
        LET s == SqlUpdateEntry(rows, i, d, now)
            j == JsonUpdateEntry(doc, i, d, now)
        IN  /\ Len(log) < MaxOps
            /\ rows' = s.rows
            /\ doc' = j.doc
            /\ clock' = now
            /\ log' = Append(log, [op |-> "update", id |-> i, entry |-> d,
                                   sql |-> s.ret, json |-> j.ret])
            /\ preRows' = rows
            /\ preDoc' = doc
            /\ lastRead' = "none"
            /\ UNCHANGED <<nextUuid, ioVars, appVars>>

DeleteEntry ==
    \E i \in AskedIds :
        LET s == SqlDeleteEntry(rows, i)
            j == JsonDeleteEntry(doc, i)
        IN  /\ Len(log) < MaxOps
            /\ rows' = s.rows
            /\ doc' = j.doc
            /\ log' = Append(log, [op |-> "delete", id |-> i,
                                   sql |-> s.ret, json |-> j.ret])
            /\ preRows' = rows
            /\ preDoc' = doc
            /\ lastRead' = "none"
            /\ UNCHANGED <<clock, nextUuid, ioVars, appVars>>

Next == AddEntry \/ AddEntryWithId \/ UpdateEntry \/ DeleteEntry

Spec == Init /\ [][Next]_vars

\* The calls of a caller that leaves the ids to the backend, as the contract
\* prescribes.
DraftNext == AddEntry \/ UpdateEntry \/ DeleteEntry

DraftSpec == Init /\ [][DraftNext]_vars

-----------------------------------------------------------------------------
\* The read calls, made between the mutating calls.

\* Number of mutating calls made in a run in which the read calls are made.
MaxStored == 2

\* What a read call of SQLiteStorage leaves in the table and returns: it
\* runs one SELECT and never commits.
SqlRead(table, req) ==
    [rows |-> table,
     ret |-> CASE req.op = "get" -> {SqlGetEntry(table, req.id)}
               [] req.op = "by_date" -> SqlGetEntriesByDate(table, req.date)
               [] req.op = "search" -> SqlSearchEntries(table, req.keyword)
               [] req.op = "list" -> SqlListEntries(table)
               [] req.op = "export" -> SqlExportAll(table)]

\* JsonRead whose listing sorts the loaded list in place and saves it.
JsonRead_SortInPlace(entries, req) ==
    [doc |-> IF req.op \in {"list", "export"} THEN JsonListEntries(entries) ELSE entries,
     ret |-> CASE req.op = "get" -> JsonGetEntry(entries, req.id)
               [] req.op = "by_date" -> JsonGetEntriesByDate(entries, req.date)
               [] req.op = "search" -> JsonSearchEntries(entries, req.keyword)
               [] req.op = "list" -> JsonListEntries(entries)
               [] req.op = "export" -> JsonExportAll(entries)]

\* What a read call of JSONStorage leaves in the document and returns: it
\* calls _read and never _write, and sorted() builds a new list.
JsonRead(entries, req) ==
    [doc |-> entries,
     ret |-> CASE req.op = "get" -> JsonGetEntry(entries, req.id)
               [] req.op = "by_date" -> JsonGetEntriesByDate(entries, req.date)
               [] req.op = "search" -> JsonSearchEntries(entries, req.keyword)
               [] req.op = "list" -> JsonListEntries(entries)
               [] req.op = "export" -> JsonExportAll(entries)]

\* A read call is answered by both backends.
Read(req) ==
    LET s == SqlRead(rows, req)
        j == JsonRead(doc, req)
    IN  /\ s.ret # {}
        /\ Len(j.ret) >= 0
        /\ rows' = s.rows
        /\ doc' = j.doc
        /\ preRows' = rows
        /\ preDoc' = doc
        /\ lastRead' = req.op

GetEntry ==
    /\ \E i \in AskedIds : Read([op |-> "get", id |-> i])
    /\ UNCHANGED <<clock, nextUuid, log, ioVars, appVars>>

GetEntriesByDate ==
    /\ \E d \in Dates : Read([op |-> "by_date", date |-> d])
    /\ UNCHANGED <<clock, nextUuid, log, ioVars, appVars>>

SearchEntries ==
    /\ \E kw \in Keywords : Read([op |-> "search", keyword |-> kw])
    /\ UNCHANGED <<clock, nextUuid, log, ioVars, appVars>>

ListEntries ==
    /\ Read([op |-> "list"])
    /\ UNCHANGED <<clock, nextUuid, log, ioVars, appVars>>

ExportAll ==
    /\ Read([op |-> "export"])
    /\ UNCHANGED <<clock, nextUuid, log, ioVars, appVars>>

ReadNext ==
    \/ Len(log) < MaxStored /\ AddEntry
    \/ Len(log) < MaxStored /\ AddEntryWithId
    \/ Len(log) < MaxStored /\ UpdateEntry
    \/ Len(log) < MaxStored /\ DeleteEntry
    \/ GetEntry \/ GetEntriesByDate \/ SearchEntries \/ ListEntries \/ ExportAll

ReadSpec == Init /\ [][ReadNext]_vars

-----------------------------------------------------------------------------
\* The mutating calls step by step: JSONStorage loads the whole document,
\* changes the loaded list and writes the whole document back; SQLiteStorage
\* executes one statement and commits.  Two processes work on one JSON file;
\* a call may be interrupted at each of its steps (the process is killed, the
\* user presses Ctrl-C, json.dump or the disk raises).

\* Number of calls started in one run.
MaxCalls == 2

Procs == {"p1", "p2"}

\* The text of the JSON file as a sequence of pieces of one size: one piece
\* for each entry and one for the closing "]}" of the document.
EndMark == [end |-> TRUE, entry |-> <<>>]
Piece(e) == [end |-> FALSE, entry |-> <<e>>]

\* json.dump(data, f)
JsonDump(entries) ==
    SubSeq([i \in 1..Len(entries) |-> Piece(entries[i])], 1, Len(entries)) \o <<EndMark>>

\* json.load(f) succeeds on the text of one whole document and raises
\* JSONDecodeError on the empty file, on a document that is cut off and on a
\* document that is followed by more text.
ValidDoc(text) ==
    /\ Len(text) >= 1
    /\ text[Len(text)] = EndMark
    /\ \A i \in 1..(Len(text) - 1) : text[i] # EndMark

\* json.load(f)["entries"]
JsonLoad(text) ==
    SubSeq([i \in 1..(Len(text) - 1) |-> text[i].entry[1]], 1, Len(text) - 1)

\* f.write(...) through a descriptor opened at offset 0: the written text
\* replaces the start of what is in the file, whatever another descriptor
\* wrote beyond it stays.
WriteOver(text, written) ==
    written \o SubSeq(text, Len(written) + 1, Len(text))

\* Drafts handed to the calls that are followed step by step.
WriterDrafts ==
    { [date |-> 1],
      [date |-> 2, title |-> <<"W", "o">>, body |-> <<"a">>, mood |-> <<"o", "k">>,
       tags |-> << <<"x">>, <<"y">> >>] }

\* Ids handed out so far.
IssuedIds == 1..(nextUuid - 1)

WriterCalls ==
    {[op |-> "add", entry |-> d, id |-> 0] : d \in WriterDrafts}
      \cup {[op |-> "update", entry |-> d, id |-> i] : d \in WriterDrafts, i \in IssuedIds}
      \cup {[op |-> "delete", entry |-> [date |-> 0], id |-> i] : i \in IssuedIds}

\* JsonApply that writes the new entry alone.
JsonApply_NewOnly(entries, call, uuid, now) ==
    CASE call.op = "add" -> JsonAddEntry(<<>>, call.entry, uuid, now)
      [] call.op = "update" -> JsonUpdateEntry(entries, call.id, call.entry, now)
      [] call.op = "delete" -> JsonDeleteEntry(entries, call.id)

\* What a mutating call of JSONStorage makes of the list it loaded.
JsonApply(entries, call, uuid, now) ==
    CASE call.op = "add" -> JsonAddEntry(entries, call.entry, uuid, now)
      [] call.op = "update" -> JsonUpdateEntry(entries, call.id, call.entry, now)
      [] call.op = "delete" -> JsonDeleteEntry(entries, call.id)

\* What the statement of a mutating call of SQLiteStorage makes of the table.
SqlApply(table, call, uuid, now) ==
    CASE call.op = "add" -> SqlAddEntry(table, call.entry, uuid, now)
      [] call.op = "update" -> SqlUpdateEntry(table, call.id, call.entry, now)
      [] call.op = "delete" -> SqlDeleteEntry(table, call.id)

Idle == [pc |-> "idle"]

\* Calls started: the finished ones and the ones in progress.
Started ==
    Len(log) + Cardinality({p \in Procs : procs[p].pc # "idle"})
             + (IF txn.pc # "idle" THEN 1 ELSE 0)

IoInit ==
    /\ rows = <<>>
    /\ doc = <<>>
    /\ clock = 0
    /\ nextUuid = 1
    /\ log = <<>>
    /\ preRows = <<>>
    /\ preDoc = <<>>
    /\ lastRead = "none"
    /\ file = JsonDump(<<>>)
    /\ procs = [p \in Procs |-> Idle]
    /\ txn = Idle
    /\ storage = "both" /\ pc = "off"

\* A finished call: how it ended, what the store held when it began and what
\* it was to hold after it; `seen` is the number of calls that had finished
\* when it loaded the store.
Ended(backend, p, c, outcome) ==
    [backend |-> backend, proc |-> p, op |-> c.call.op, id |-> c.call.id,
     ret |-> c.ret, outcome |-> outcome,
     before |-> c.before, after |-> c.after, seen |-> c.seen]

\* Process p enters add_entry, update_entry or delete_entry of JSONStorage:
\* _read() and the change of the loaded list.  A call that finds nothing to
\* write returns here, a document that does not parse makes _read raise.
JsonBegin(p) ==
    \E call \in WriterCalls :
        /\ procs[p].pc = "idle"
        /\ Started < MaxCalls
        /\ nextUuid' = nextUuid + 1
        /\ IF ~ValidDoc(file)
           THEN /\ log' = Append(log, Ended("json", p,
                              [call |-> call, ret |-> Raise("JSONDecodeError"),
                               before |-> <<>>, after |-> <<>>, seen |-> Len(log)],
                              "raised"))
                /\ UNCHANGED procs
           ELSE LET data == JsonLoad(file)
                    r == JsonApply(data, call, nextUuid, clock)
                    c == [call |-> call, ret |-> r.ret, before |-> data,
                          after |-> r.doc, seen |-> Len(log)]
                IN  IF r.ret.ok
                    THEN /\ procs' = [procs EXCEPT ![p] = [pc |-> "loaded"] @@ c]
                         /\ UNCHANGED log
                    ELSE /\ log' = Append(log, Ended("json", p, c, "returned"))
                         /\ UNCHANGED procs
        /\ UNCHANGED <<rows, doc, clock, preRows, preDoc, lastRead, file, txn, appVars>>

\* _write: open(self.file_path, "w") empties the file.
JsonOpen(p) ==
    /\ procs[p].pc = "loaded"
    /\ file' = <<>>
    /\ procs' = [procs EXCEPT ![p].pc = "opened"]
    /\ UNCHANGED <<rows, doc, clock, nextUuid, log, preRows, preDoc, lastRead, txn, appVars>>

\* _write: json.dump writes the document, the file is closed and the call
\* returns.
JsonWrite(p) ==
    /\ procs[p].pc = "opened"
    /\ file' = WriteOver(file, JsonDump(procs[p].after))
    /\ log' = Append(log, Ended("json", p, procs[p], "returned"))
    /\ procs' = [procs EXCEPT ![p] = Idle]
    /\ UNCHANGED <<rows, doc, clock, nextUuid, preRows, preDoc, lastRead, txn, appVars>>

\* The call of process p is interrupted before it has written the document.
JsonInterrupt(p) ==
    /\ procs[p].pc \in {"loaded", "opened"}
    /\ log' = Append(log, Ended("json", p, procs[p], "interrupted"))
    /\ procs' = [procs EXCEPT ![p] = Idle]
    /\ UNCHANGED <<rows, doc, clock, nextUuid, preRows, preDoc, lastRead, file, txn, appVars>>

\* The SQLite connection enters a mutating call: c.execute(...) inside the
\* transaction that sqlite3 opens for it.  A statement that raises changes
\* nothing.
SqlBegin ==
    \E call \in WriterCalls :
        /\ txn.pc = "idle"
        /\ Started < MaxCalls
        /\ nextUuid' = nextUuid + 1
        /\ LET r == SqlApply(rows, call, nextUuid, clock)
               c == [call |-> call, ret |-> r.ret, before |-> rows,
                     after |-> r.rows, seen |-> Len(log)]
           IN  IF r.ret.status = "ok"
               THEN /\ txn' = [pc |-> "executed"] @@ c
                    /\ UNCHANGED log
               ELSE /\ log' = Append(log, Ended("sqlite", "db", c, "raised"))
                    /\ UNCHANGED txn
        /\ UNCHANGED <<rows, doc, clock, preRows, preDoc, lastRead, file, procs, appVars>>

\* self.conn.commit()
SqlCommit ==
    /\ txn.pc = "executed"
    /\ rows' = txn.after
    /\ log' = Append(log, Ended("sqlite", "db", txn, "returned"))
    /\ txn' = Idle
    /\ UNCHANGED <<doc, clock, nextUuid, preRows, preDoc, lastRead, file, procs, appVars>>

\* The call is interrupted before the commit: the open transaction is rolled
\* back when the connection goes away.
SqlInterrupt ==
    /\ txn.pc = "executed"
    /\ log' = Append(log, Ended("sqlite", "db", txn, "interrupted"))
    /\ txn' = Idle
    /\ UNCHANGED <<rows, doc, clock, nextUuid, preRows, preDoc, lastRead, file, procs, appVars>>

IoNext ==
    \/ \E p \in Procs : JsonBegin(p)
    \/ \E p \in Procs : JsonOpen(p)
    \/ \E p \in Procs : JsonWrite(p)
    \/ \E p \in Procs : JsonInterrupt(p)
    \/ SqlBegin
    \/ SqlCommit
    \/ SqlInterrupt

IoSpec == IoInit /\ [][IoNext]_vars

-----------------------------------------------------------------------------
\* DiaryApp: the menu loop of run() and its handlers, on the backend that
\* main() built.  One step is one turn of the loop: the choice is read, its
\* handler reads its inputs and makes its storage calls, and run() deals with
\* the way the handler ended.  `log` is the journal of the turns.

\* Number of menu choices made in one run.
MaxActions == 2

\* str.strip()
RECURSIVE LStrip(_)
LStrip(s) == IF Len(s) > 0 /\ s[1] = " " THEN LStrip(Tail(s)) ELSE s

Strip(s) == LStrip(RStrip(s))

\* parse_date: strptime accepts a date typed without its leading zero as well
\* as the canonical text, strftime gives back the canonical text, which is
\* what a date of the model stands for.  <<"0", "1">> is the canonical text
\* of date 1 and <<"1">> the same date without the zero.
parse_date(input_str) ==
    IF input_str \in {<<"0", "1">>, <<"1">>} THEN [ok |-> TRUE, date |-> 1]
    ELSE IF input_str \in {<<"0", "2">>, <<"2">>} THEN [ok |-> TRUE, date |-> 2]
    ELSE [ok |-> FALSE, date |-> 0]

\* datetime.utcnow().strftime(DATE_FMT): the day on which the program runs.
Today == 2

\* [t.strip() for t in tags_in.split(",") if t.strip()]
parse_tags(tags_in) ==
    LET parts == Split(tags_in)
        stripped == [i \in 1..Len(parts) |-> Strip(parts[i])]
    IN  SelectSeq(stripped, LAMBDA t : Len(t) > 0)

\* The storage calls of the handlers, on the backend in use.
StorageGetEntry(entry_id) ==
    IF storage = "sqlite" THEN SqlGetEntry(rows, entry_id)
    ELSE JsonGetEntry(doc, entry_id)

StorageAddEntry(entry, now) ==
    IF storage = "sqlite"
    THEN LET r == SqlAddEntry(rows, entry, nextUuid, now)
         IN  [store |-> r.rows, ret |-> r.ret]
    ELSE LET r == JsonAddEntry(doc, entry, nextUuid, now)
         IN  [store |-> r.doc, ret |-> r.ret]

StorageUpdateEntry(entry_id, updated, now) ==
    IF storage = "sqlite"
    THEN LET r == SqlUpdateEntry(rows, entry_id, updated, now)
         IN  [store |-> r.rows, ret |-> r.ret]
    ELSE LET r == JsonUpdateEntry(doc, entry_id, updated, now)
         IN  [store |-> r.doc, ret |-> r.ret]

StorageDeleteEntry(entry_id) ==
    IF storage = "sqlite"
    THEN LET r == SqlDeleteEntry(rows, entry_id)
         IN  [store |-> r.rows, ret |-> r.ret]
    ELSE LET r == JsonDeleteEntry(doc, entry_id)
         IN  [store |-> r.doc, ret |-> r.ret]

\* The store of the backend in use becomes `store`.
Save(store) ==
    IF storage = "sqlite"
    THEN rows' = store /\ UNCHANGED doc
    ELSE doc' = store /\ UNCHANGED rows

\* The handler made no mutating call.
NoSave == UNCHANGED <<rows, doc, clock, nextUuid>>

\* run() without the try / except around the handler.
Handle_NoCatch(outcome) ==
    [pc |-> IF outcome \in {"quit", "eof", "interrupt", "raised"} THEN "ended" ELSE "menu",
     reported |-> FALSE]

\* What run() and main() do with the way a turn ended: "9" breaks the loop;
\* an Exception raised by the handler is printed and the loop goes on; an
\* EOFError of the menu prompt, which is outside the try, and a
\* KeyboardInterrupt, which is no Exception, leave run().
Handle(outcome) ==
    [pc |-> IF outcome \in {"quit", "eof", "interrupt"} THEN "ended" ELSE "menu",
     reported |-> outcome = "raised"]

\* One turn of the loop.
Turn(choice, inputs, outcome, calls) ==
    /\ pc = "menu"
    /\ Len(log) < MaxActions
    /\ log' = Append(log, [choice |-> choice, inputs |-> inputs,
                           outcome |-> outcome,
                           reported |-> Handle(outcome).reported,
                           calls |-> calls])
    /\ pc' = Handle(outcome).pc
    /\ preRows' = rows
    /\ preDoc' = doc
    /\ UNCHANGED <<lastRead, ioVars, storage>>

\* Ids the user types: those of stored entries and one that is not stored.
TypedIds == IssuedIds \cup {nextUuid}

\* What the user types into the prompts of add_new_entry.
AddForms ==
    { [date_in |-> <<>>, title_in |-> <<"a", " ">>, body_in |-> <<"b">>,
       mood_in |-> <<"o", "k">>, tags_in |-> <<"x", ",", " ", "y">>],
      [date_in |-> <<"1">>, title_in |-> <<>>, body_in |-> <<>>,
       mood_in |-> <<>>, tags_in |-> <<>>],
      [date_in |-> <<"x">>, title_in |-> <<>>, body_in |-> <<>>,
       mood_in |-> <<>>, tags_in |-> <<>>] }

add_new_entry ==
    \E in \in AddForms :
        LET date_in == Strip(in.date_in)
            parsed == parse_date(date_in)
            entry == [date |-> IF Len(date_in) = 0 THEN Today ELSE parsed.date,
                      title |-> Strip(in.title_in),
                      body |-> in.body_in,
                      mood |-> Strip(in.mood_in),
                      tags |-> IF Len(Strip(in.tags_in)) > 0
                               THEN parse_tags(Strip(in.tags_in)) ELSE <<>>]
            a == StorageAddEntry(entry, clock + 1)
        IN  IF Len(date_in) > 0 /\ ~parsed.ok
            THEN /\ Turn("1", [date_in |-> in.date_in], "returned", <<>>)
                 /\ NoSave
            ELSE /\ Turn("1", in, "returned",
                         <<[op |-> "add", id |-> a.ret.id, entry |-> entry, ret |-> a.ret]>>)
                 /\ Save(a.store)
                 /\ clock' = clock + 1
                 /\ nextUuid' = nextUuid + 1

\* read_by_date hands the typed text to parse_date as it is.
read_by_date ==
    \E date_in \in {<<"1">>, <<"1", " ">>} :
        /\ Turn("2", [date_in |-> date_in], "returned",
                IF parse_date(date_in).ok
                THEN <<[op |-> "get_entries_by_date", date |-> parse_date(date_in).date]>>
                ELSE <<>>)
        /\ NoSave

search_entries ==
    \E typed \in {<<" ">>, <<"x", " ">>} :
        /\ Turn("3", [keyword |-> typed], "returned",
                IF Len(Strip(typed)) > 0
                THEN <<[op |-> "search_entries", keyword |-> Strip(typed)]>>
                ELSE <<>>)
        /\ NoSave

list_entries ==
    /\ Turn("4", <<>>, "returned", <<[op |-> "list_entries"]>>)
    /\ NoSave

\* export: the files are written outside the store.
export ==
    \E what \in {"single", "all", "other"}, fmt \in {"md", "pdf"}, entry_id \in TypedIds :
        /\ Turn("5", [choice |-> what, fmt |-> fmt] @@
                    (IF what = "single" /\ fmt = "md" THEN [entry_id |-> entry_id] ELSE <<>>),
                "returned",
                IF fmt # "md" THEN <<>>
                ELSE IF what = "single" THEN <<[op |-> "get_entry", id |-> entry_id]>>
                ELSE IF what = "all" THEN <<[op |-> "export_all"]>>
                ELSE <<>>)
        /\ NoSave

\* What the user types into the prompts of edit_entry.
EditForms ==
    [date_in : {<<" ">>, <<"1">>, <<"x">>},
     title_in : {<<" ">>, <<"w", " ">>},
     body_in : {<<>>, <<" ">>, <<"o">>},
     mood_in : {<<>>, <<"k">>},
     tags_in : {<<>>, <<",">>, <<"y", ",", " ", "x">>}]

\* edit_fields that takes the mood as typed.
edit_fields_MoodAsTyped(e, in) ==
    LET date_in == Strip(in.date_in)
        parsed == parse_date(date_in)
        tags_in == Strip(in.tags_in)
    IN  IF Len(date_in) > 0 /\ ~parsed.ok
        THEN [ok |-> FALSE, updated |-> [date |-> 0]]
        ELSE [ok |-> TRUE,
              updated |->
                [date |-> IF Len(date_in) > 0 THEN parsed.date ELSE e.date,
                 title |-> IF Len(Strip(in.title_in)) > 0 THEN Strip(in.title_in) ELSE e.title,
                 body |-> IF Len(in.body_in) > 0 THEN in.body_in ELSE e.body,
                 mood |-> Strip(in.mood_in),
                 tags |-> IF Len(tags_in) > 0 THEN parse_tags(tags_in) ELSE e.tags]]

\* The dict `updated` that edit_entry builds from the stored entry e and the
\* typed inputs, or the refusal of a date that does not parse.
edit_fields(e, in) ==
    LET date_in == Strip(in.date_in)
        parsed == parse_date(date_in)
        tags_in == Strip(in.tags_in)
    IN  IF Len(date_in) > 0 /\ ~parsed.ok
        THEN [ok |-> FALSE, updated |-> [date |-> 0]]
        ELSE [ok |-> TRUE,
              updated |->
                [date |-> IF Len(date_in) > 0 THEN parsed.date ELSE e.date,
                 title |-> IF Len(Strip(in.title_in)) > 0 THEN Strip(in.title_in) ELSE e.title,
                 body |-> IF Len(in.body_in) > 0 THEN in.body_in ELSE e.body,
                 mood |-> IF Len(Strip(in.mood_in)) > 0 THEN Strip(in.mood_in) ELSE e.mood,
                 tags |-> IF Len(tags_in) > 0 THEN parse_tags(tags_in) ELSE e.tags]]

\* The handler runs when the loop is at the menu (the guard of Turn, tested
\* before the inputs are drawn).
edit_entry ==
    /\ pc = "menu"
    /\ Len(log) < MaxActions
    /\ \E entry_id \in TypedIds, in \in EditForms :
           LET g == StorageGetEntry(entry_id)
               r == edit_fields(g[1], in)
               u == StorageUpdateEntry(entry_id, r.updated, clock + 1)
           IN  IF Len(g) = 0
               THEN /\ Turn("6", [entry_id |-> entry_id], "returned", <<>>)
                    /\ NoSave
               ELSE IF ~r.ok
               THEN /\ Turn("6", [entry_id |-> entry_id, date_in |-> in.date_in],
                            "returned", <<>>)
                    /\ NoSave
               ELSE /\ Turn("6", [entry_id |-> entry_id] @@ in, "returned",
                            <<[op |-> "update", id |-> entry_id, entry |-> r.updated,
                               ret |-> u.ret]>>)
                    /\ Save(u.store)
                    /\ clock' = clock + 1
                    /\ UNCHANGED nextUuid

\* What the user types when delete_entry asks for confirmation.
Confirms == {<<"y", "e", "s">>, <<"Y", "E", "S">>, <<"y", "e", "s", " ">>, <<>>}

\* The confirmation taken without the spaces around it.
confirmed_Stripped(confirm) == Lower(Strip(confirm)) = <<"y", "e", "s">>

\* confirm.lower() != "yes" is the test that cancels.
confirmed(confirm) == Lower(confirm) = <<"y", "e", "s">>

delete_entry ==
    \E entry_id \in TypedIds, confirm \in Confirms :
        LET d == StorageDeleteEntry(entry_id)
        IN  IF ~confirmed(confirm)
            THEN /\ Turn("7", [entry_id |-> entry_id, confirm |-> confirm],
                         "returned", <<>>)
                 /\ NoSave
            ELSE /\ Turn("7", [entry_id |-> entry_id, confirm |-> confirm],
                         "returned",
                         <<[op |-> "delete", id |-> entry_id, ret |-> d.ret]>>)
                 /\ Save(d.store)
                 /\ UNCHANGED <<clock, nextUuid>>

mood_stats ==
    /\ Turn("8", <<>>, "returned", <<[op |-> "list_entries"]>>)
    /\ NoSave

Handlers == {"1", "2", "3", "4", "5", "6", "7", "8"}

\* A handler raises an Exception before it has changed the store: input()
\* meets the end of stdin, the storage cannot be read.
handler_raises ==
    \E choice \in Handlers :
        /\ Turn(choice, <<>>, "raised", <<>>)
        /\ NoSave

\* Ctrl-C at the menu prompt or at a prompt of a handler.
keyboard_interrupt ==
    \E choice \in Handlers \cup {""} :
        /\ Turn(choice, <<>>, "interrupt", <<>>)
        /\ NoSave

\* input("Choose an option: ") meets the end of stdin.
prompt_eof ==
    /\ Turn("", <<>>, "eof", <<>>)
    /\ NoSave

invalid_choice ==
    \E choice \in {"0", "q"} :
        /\ Turn(choice, <<>>, "invalid", <<>>)
        /\ NoSave

quit ==
    /\ Turn("9", <<>>, "quit", <<>>)
    /\ NoSave

AppInit ==
    /\ rows = <<>>
    /\ doc = <<>>
    /\ clock = 0
    /\ nextUuid = 1
    /\ log = <<>>
    /\ preRows = <<>>
    /\ preDoc = <<>>
    /\ lastRead = "none"
    /\ file = <<>> /\ procs = <<>> /\ txn = <<>>
    /\ storage \in {"sqlite", "json"}
    /\ pc = "menu"

run ==
    \/ add_new_entry \/ read_by_date \/ search_entries \/ list_entries
    \/ export \/ edit_entry \/ delete_entry \/ mood_stats
    \/ handler_raises \/ keyboard_interrupt \/ prompt_eof
    \/ invalid_choice \/ quit

AppSpec == AppInit /\ [][run]_vars

\* The most recent call.
Called(op) == Len(log) > 0 /\ log[Len(log)].op = op
last == log[Len(log)]

-----------------------------------------------------------------------------
\* Vocabulary of the properties

\* The five content fields of entry e are those of draft d, an absent
\* optional field of d standing for the empty text or the empty list.
SameContent(e, d) ==
    /\ e.date = d.date
    /\ e.title = Get(d, "title", <<>>)
    /\ e.body = Get(d, "body", <<>>)
    /\ e.mood = Get(d, "mood", <<>>)
    /\ e.tags = Get(d, "tags", <<>>)

\* a and b hold the same entries, each as often as the other.
Count(s, e) == Cardinality({k \in 1..Len(s) : s[k] = e})

SameEntries(a, b) ==
    /\ Len(a) = Len(b)
    /\ \A k \in 1..Len(a) : Count(a, a[k]) = Count(b, a[k])

\* The entries a reader of the SQLite store sees, in rowid order.
SqlStored == RowsToEntries(rows)

FirstIndex(s, entry_id) ==
    CHOOSE k \in 1..Len(s) :
        s[k].id = entry_id /\ \A j \in 1..(k - 1) : s[j].id # entry_id

\* C1: after add(D) with a dated draft D that carries no id, get of the returned id
\* yields, in both backends, an entry whose date, title, body, mood and tags
\* are D's, whose id is the returned one and whose created_at equals its
\* updated_at.
C1_RoundTrip ==
    (Called("add") /\ "id" \notin DOMAIN last.entry /\ "date" \in DOMAIN last.entry) =>
        LET gs == SqlGetEntry(rows, last.sql.id)
            gj == JsonGetEntry(doc, last.json.id)
        IN  /\ last.sql.status = "ok"
            /\ Len(gs) = 1
            /\ SameContent(gs[1], last.entry)
            /\ gs[1].id = last.sql.id
            /\ gs[1].created_at = gs[1].updated_at
            /\ last.json.status = "ok"
            /\ Len(gj) = 1
            /\ SameContent(gj[1], last.entry)
            /\ gj[1].id = last.json.id
            /\ gj[1].created_at = gj[1].updated_at

\* C2: no two stored entries share an id, no add returns an id that an
\* earlier add returned, and no add returns an id that was deleted before.
C2_IdUniqueness ==
    /\ \A a, b \in 1..Len(rows) : a # b => rows[a].id # rows[b].id
    /\ \A a, b \in 1..Len(doc) : a # b => doc[a].id # doc[b].id
    /\ \A a, b \in 1..Len(log) :
          (a < b /\ log[a].op = "add" /\ log[b].op = "add") =>
              /\ (log[a].sql.status = "ok" /\ log[b].sql.status = "ok")
                     => log[a].sql.id # log[b].sql.id
              /\ (log[a].json.status = "ok" /\ log[b].json.status = "ok")
                     => log[a].json.id # log[b].json.id
    /\ \A a, b \in 1..Len(log) :
          (a < b /\ log[a].op = "delete" /\ log[b].op = "add") =>
              /\ (log[a].sql.ok /\ log[b].sql.status = "ok")
                     => log[b].sql.id # log[a].id
              /\ (log[a].json.ok /\ log[b].json.status = "ok")
                     => log[b].json.id # log[a].id

\* C3: update(id, F) on an id that is in the store returns true, makes the
\* entry's date, title, body, mood and tags F's, keeps its id and created_at,
\* does not lower its updated_at, and changes no other entry nor the count.
C3_UpdateExisting ==
    Called("update") =>
        /\ last.id \in Ids(preRows) =>
              LET old == SqlGetEntry(preRows, last.id)[1]
                  new == SqlGetEntry(rows, last.id)
              IN  /\ last.sql = RetBool(TRUE)
                  /\ Len(new) = 1
                  /\ SameContent(new[1], last.entry)
                  /\ new[1].id = old.id
                  /\ new[1].created_at = old.created_at
                  /\ new[1].updated_at >= old.updated_at
                  /\ Len(rows) = Len(preRows)
                  /\ \A k \in 1..Len(preRows) :
                        preRows[k].id # last.id => rows[k] = preRows[k]
        /\ last.id \in Ids(preDoc) =>
              LET i == FirstIndex(preDoc, last.id)
                  old == JsonGetEntry(preDoc, last.id)[1]
                  new == JsonGetEntry(doc, last.id)
              IN  /\ last.json = RetBool(TRUE)
                  /\ Len(new) = 1
                  /\ SameContent(new[1], last.entry)
                  /\ new[1].id = old.id
                  /\ new[1].created_at = old.created_at
                  /\ new[1].updated_at >= old.updated_at
                  /\ Len(doc) = Len(preDoc)
                  /\ \A k \in 1..Len(preDoc) : k # i => doc[k] = preDoc[k]

\* C4: update(id, F), F carrying its date, or delete(id) of an id that is not
\* in the store returns false, raises nothing and leaves the store as it was,
\* in both backends.
C4_NotFoundNoOp ==
    ((Called("update") /\ "date" \in DOMAIN last.entry) \/ Called("delete")) =>
        /\ last.id \notin Ids(preRows) =>
              (last.sql = RetBool(FALSE) /\ rows = preRows)
        /\ last.id \notin Ids(preDoc) =>
              (last.json = RetBool(FALSE) /\ doc = preDoc)

\* An update and a delete of an unknown id have both been answered on a store
\* that holds an entry.
C4_Witness ==
    /\ Len(log) >= 3
    /\ Len(doc) > 0 /\ Len(rows) > 0
    /\ log[Len(log) - 1].op = "update"
    /\ log[Len(log) - 1].id \notin Ids(doc)
    /\ Called("delete")
    /\ last.id \notin Ids(preDoc) /\ last.id \notin Ids(preRows)

\* C5: delete(id) on an id that is in the store returns true, get(id) is
\* absent afterwards, the count drops by exactly one and the other entries
\* are unchanged.
C5_DeleteExisting ==
    Called("delete") =>
        /\ last.id \in Ids(preRows) =>
              /\ last.sql = RetBool(TRUE)
              /\ SqlGetEntry(rows, last.id) = <<>>
              /\ Len(rows) = Len(preRows) - 1
              /\ rows = SelectSeq(preRows, LAMBDA r : r.id # last.id)
        /\ last.id \in Ids(preDoc) =>
              /\ last.json = RetBool(TRUE)
              /\ JsonGetEntry(doc, last.id) = <<>>
              /\ Len(doc) = Len(preDoc) - 1
              /\ doc = SelectSeq(preDoc, LAMBDA e : e.id # last.id)

NewestFirst(res) ==
    \A a, b \in 1..Len(res) : a < b => res[a].created_at >= res[b].created_at

\* C6: get_by_date(d) returns exactly the stored entries dated d, newest
\* created_at first, in both backends.
C6_DateFilter ==
    \A d \in Dates :
        /\ \A res \in SqlGetEntriesByDate(rows, d) :
              /\ SameEntries(res, SelectSeq(SqlStored, LAMBDA e : e.date = d))
              /\ NewestFirst(res)
        /\ LET res == JsonGetEntriesByDate(doc, d)
           IN  /\ SameEntries(res, SelectSeq(doc, LAMBDA e : e.date = d))
               /\ NewestFirst(res)

\* kw, ignoring case, is a substring of e's title, of its body or of one of
\* its tags.
Matches(e, kw) ==
    \/ Contains(Lower(e.title), Lower(kw))
    \/ Contains(Lower(e.body), Lower(kw))
    \/ \E t \in 1..Len(e.tags) : Contains(Lower(e.tags[t]), Lower(kw))

\* C7: search(kw) with a non-empty kw returns exactly the stored entries that
\* kw matches, in both backends.
C7_SearchMatchSet ==
    \A kw \in Keywords :
        /\ \A res \in SqlSearchEntries(rows, kw) :
              SameEntries(res, SelectSeq(SqlStored, LAMBDA e : Matches(e, kw)))
        /\ SameEntries(JsonSearchEntries(doc, kw),
                       SelectSeq(doc, LAMBDA e : Matches(e, kw)))

\* Descending by date and, among equal dates, by created_at.
ListOrder(res) ==
    \A a, b \in 1..Len(res) : a < b =>
        \/ res[a].date > res[b].date
        \/ (res[a].date = res[b].date /\ res[a].created_at >= res[b].created_at)

\* C8: list_all returns every stored entry exactly once, by date descending
\* and then created_at descending, and export_all returns what list_all
\* returns.
C8_ListAll ==
    /\ LET all == SqlListEntries(rows)
       IN  /\ \A res \in all : SameEntries(res, SqlStored) /\ ListOrder(res)
           /\ all # {}
           /\ SqlExportAll(rows) = all
    /\ LET res == JsonListEntries(doc)
       IN  /\ SameEntries(res, doc)
           /\ ListOrder(res)
           /\ JsonExportAll(doc) = res

\* Both stores hold three entries, two of one date created at different
\* times and one of another date, and listing reorders them.
C8_Witness ==
    /\ Len(doc) = 3 /\ Len(rows) = 3
    /\ \E a, b, c \in 1..3 :
          /\ doc[a].date = doc[b].date
          /\ doc[a].created_at < doc[b].created_at
          /\ doc[c].date # doc[a].date
    /\ JsonListEntries(doc) # doc
    /\ SqlStored \notin SqlListEntries(rows)

\* C9: after the same calls, list_all of the two backends has the same
\* length and agrees position by position on date, title, body, mood, tags.
C9_CrossBackend ==
    \A res \in SqlListEntries(rows) :
        LET j == JsonListEntries(doc)
        IN  /\ Len(res) = Len(j)
            /\ \A k \in 1..Len(res) :
                  /\ res[k].date = j[k].date
                  /\ res[k].title = j[k].title
                  /\ res[k].body = j[k].body
                  /\ res[k].mood = j[k].mood
                  /\ res[k].tags = j[k].tags

CreatedAts(s) == [k \in 1..Len(s) |-> s[k].created_at]

\* What the last call left of the entries that were stored before it: an add
\* appends, an update keeps every position, a delete drops the asked id.
Surviving(pre) ==
    IF Called("delete") THEN SelectSeq(pre, LAMBDA e : e.id # last.id) ELSE pre

\* C10: every stored entry has created_at <= updated_at, and no call changes
\* the created_at of an entry that was stored before it.
C10_Timestamps ==
    /\ \A k \in 1..Len(rows) : rows[k].created_at <= rows[k].updated_at
    /\ \A k \in 1..Len(doc) : doc[k].created_at <= doc[k].updated_at
    /\ Len(log) > 0 =>
          /\ Len(Surviving(preRows)) <= Len(rows)
          /\ CreatedAts(Surviving(preRows))
                 = SubSeq(CreatedAts(rows), 1, Len(Surviving(preRows)))
          /\ Len(Surviving(preDoc)) <= Len(doc)
          /\ CreatedAts(Surviving(preDoc))
                 = SubSeq(CreatedAts(doc), 1, Len(Surviving(preDoc)))

\* An entry created at one time has been updated at a later time, in both
\* backends.
C10_Witness ==
    /\ Called("update")
    /\ last.sql.ok /\ last.json.ok
    /\ \E k \in 1..Len(rows) : rows[k].id = last.id /\ rows[k].created_at < rows[k].updated_at
    /\ \E k \in 1..Len(doc) : doc[k].id = last.id /\ doc[k].created_at < doc[k].updated_at

-----------------------------------------------------------------------------
\* An optional field that draft d leaves out is empty in entry e.
DefaultsFilled(e, d) ==
    /\ "title" \notin DOMAIN d => e.title = <<>>
    /\ "body" \notin DOMAIN d => e.body = <<>>
    /\ "mood" \notin DOMAIN d => e.mood = <<>>
    /\ "tags" \notin DOMAIN d => e.tags = <<>>

\* C12: add with a draft that lacks the date raises an error and leaves the
\* store as it was; add with a draft that has a date (and no id) succeeds in
\* both backends, and the stored entry has the empty text for an absent
\* title, body or mood and the empty list for absent tags.
C12_DraftValidation ==
    (Called("add") /\ "id" \notin DOMAIN last.entry) =>
        IF "date" \notin DOMAIN last.entry
        THEN /\ last.sql.status # "ok" /\ rows = preRows
             /\ last.json.status # "ok" /\ doc = preDoc
        ELSE /\ last.sql.status = "ok" /\ last.json.status = "ok"
             /\ LET gs == SqlGetEntry(rows, last.sql.id)
                    gj == JsonGetEntry(doc, last.json.id)
                IN  /\ Len(gs) = 1 /\ DefaultsFilled(gs[1], last.entry)
                    /\ Len(gj) = 1 /\ DefaultsFilled(gj[1], last.entry)
                    /\ Len(rows) = Len(preRows) + 1
                    /\ Len(doc) = Len(preDoc) + 1

\* On a store that holds an entry, a draft without a date has been refused
\* and then a draft with nothing but a date has been added.
C12_Witness ==
    /\ Len(log) = 3
    /\ log[2].op = "add" /\ "date" \notin DOMAIN log[2].entry
    /\ log[2].sql.status = "KeyError" /\ log[2].json.status = "KeyError"
    /\ Called("add") /\ DOMAIN last.entry = {"date"}
    /\ Len(rows) = 2 /\ Len(doc) = 2

-----------------------------------------------------------------------------
\* C15: on a store on which no call was made yet, list_all, search of every
\* keyword and get_by_date of every date return the empty sequence, in both
\* backends.
C15_EmptyStore ==
    Len(log) = 0 =>
        /\ SqlListEntries(rows) = {<<>>}
        /\ JsonListEntries(doc) = <<>>
        /\ \A kw \in Keywords :
              /\ SqlSearchEntries(rows, kw) = {<<>>}
              /\ JsonSearchEntries(doc, kw) = <<>>
        /\ \A d \in Dates :
              /\ SqlGetEntriesByDate(rows, d) = {<<>>}
              /\ JsonGetEntriesByDate(doc, d) = <<>>

\* The freshly initialized stores have answered a listing with nothing.
C15_Witness ==
    /\ Len(log) = 0
    /\ nextUuid = 1
    /\ JsonListEntries(doc) = <<>>
    /\ <<>> \in SqlListEntries(rows)

\* No tag of the list holds the separator.
CommaFree(tags) == \A t \in 1..Len(tags) : \A i \in 1..Len(tags[t]) : tags[t][i] # ","

\* C16: in the SQLite backend, after an add or an update that stored a tag
\* list in which no tag holds a comma, get returns that tag list: the same
\* tags, as many, in the same order.
C16_TagRoundTrip ==
    LET supplied == Get(last.entry, "tags", <<>>)
        entry_id == IF last.op = "add" THEN last.sql.id ELSE last.id
    IN  ( /\ Called("add") \/ Called("update")
          /\ last.sql.status = "ok" /\ last.sql.ok
          /\ CommaFree(supplied) ) =>
            LET g == SqlGetEntry(rows, entry_id)
            IN  Len(g) = 1 /\ g[1].tags = supplied

\* res is ordered by date, latest first.
DateDescending(res) == \A a, b \in 1..Len(res) : a < b => res[a].date >= res[b].date

InResult(res, e) == \E k \in 1..Len(res) : res[k] = e

\* C17: search results are ordered by date descending in both backends, and
\* in the JSON backend the results of one date appear in the order in which
\* the document lists them.
C17_SearchOrder ==
    \A kw \in Keywords :
        /\ \A res \in SqlSearchEntries(rows, kw) : DateDescending(res)
        /\ LET res == JsonSearchEntries(doc, kw)
           IN  /\ DateDescending(res)
               /\ \A d \in Dates :
                     SelectSeq(res, LAMBDA e : e.date = d)
                        = SelectSeq(doc, LAMBDA e : e.date = d /\ InResult(res, e))

\* A search has matched three entries in both backends: two of one date, the
\* one that was stored first created before the other, and one of a later
\* date that was stored between them.
C17_Witness ==
    \E kw \in Keywords :
        LET res == JsonSearchEntries(doc, kw)
        IN  /\ Len(res) = 3 /\ Len(doc) = 3
            /\ doc[1].date = doc[3].date
            /\ doc[2].date > doc[1].date
            /\ doc[1].created_at < doc[3].created_at
            /\ res = <<doc[2], doc[1], doc[3]>>
            /\ \E r \in SqlSearchEntries(rows, kw) : Len(r) = 3

UniqueIds(res) == \A a, b \in 1..Len(res) : a # b => res[a].id # res[b].id

\* C18: exporting the n entries that export_all returns, no two of them
\* sharing an id, leaves n files in the folder, each entry's file holding that
\* entry, in both backends.
C18_OneFilePerEntry ==
    /\ \A res \in SqlExportAll(rows) :
          LET folder == export_all_to_folder(res)
          IN  UniqueIds(res) =>
                /\ Cardinality(DOMAIN folder) = Len(res)
                /\ \A k \in 1..Len(res) : folder[ExportName(res[k])] = res[k]
    /\ LET res == JsonExportAll(doc)
           folder == export_all_to_folder(res)
       IN  UniqueIds(res) =>
             /\ Cardinality(DOMAIN folder) = Len(res)
             /\ \A k \in 1..Len(res) : folder[ExportName(res[k])] = res[k]

-----------------------------------------------------------------------------
\* C13: a get, get_by_date, search, list_all or export_all call leaves the
\* table and the document as they were: the same entries with the same
\* fields in the same stored order, in both backends.
C13_ReadsDoNotMutate ==
    lastRead # "none" => (rows = preRows /\ doc = preDoc)

\* A listing has just been answered on stores whose stored order is not the
\* listing order.
C13_Witness ==
    /\ lastRead = "list"
    /\ Len(doc) = 2 /\ Len(rows) = 2
    /\ JsonListEntries(doc) # doc
    /\ SqlStored \notin SqlListEntries(rows)

-----------------------------------------------------------------------------
\* Only process p has made calls on the JSON file.
OnlyProc(p) ==
    /\ \A q \in Procs \ {p} : procs[q].pc = "idle"
    /\ \A k \in 1..Len(log) : log[k].backend = "json" => log[k].proc = p

\* C11: when an add, update or delete call has failed or was interrupted,
\* the persisted store is the whole store of before the call or the whole
\* store of after it: the table holds one of the two, and the JSON file,
\* with no other process at work on it, is a document that parses and holds
\* one of the two.
C11_AllOrNothing ==
    (Len(log) > 0 /\ last.outcome \in {"raised", "interrupted"}) =>
        IF last.backend = "sqlite"
        THEN rows \in {last.before, last.after}
        ELSE (OnlyProc(last.proc) /\ last.ret.status # "JSONDecodeError") =>
                /\ ValidDoc(file)
                /\ JsonLoad(file) \in {last.before, last.after}

\* No call is in progress and the file parses.
Quiet ==
    /\ \A p \in Procs : procs[p].pc = "idle"
    /\ ValidDoc(file)

\* The add that log[a] records returned an id that the document does not
\* hold although no delete of it returned.
LostAdd(a) ==
    /\ log[a].backend = "json" /\ log[a].op = "add" /\ log[a].outcome = "returned"
    /\ log[a].ret.id \notin Ids(JsonLoad(file))
    /\ \A k \in 1..Len(log) :
          ~(log[k].backend = "json" /\ log[k].op = "delete"
              /\ log[k].id = log[a].ret.id /\ log[k].outcome = "returned")

\* C19: on the JSON file an add that returned can be missing from the
\* document without having been deleted (the witness), and it is missing
\* only when another call wrote the document after it from a list loaded
\* before it had written.
C19_LostUpdate ==
    Quiet =>
        \A a \in 1..Len(log) :
            LostAdd(a) =>
                \E b \in (a + 1)..Len(log) :
                    /\ log[b].backend = "json" /\ log[b].outcome = "returned"
                    /\ log[b].ret.ok
                    /\ log[b].seen < a

\* Both processes have added an entry, both calls returned, and the document
\* holds only one of the two entries.
C19_Witness ==
    /\ Quiet
    /\ Len(log) = 2
    /\ log[1].proc # log[2].proc
    /\ LostAdd(1)
    /\ log[2].op = "add" /\ log[2].outcome = "returned"
    /\ Len(JsonLoad(file)) = 1

-----------------------------------------------------------------------------
\* C14 as stated: a handler that raised an error is reported and the loop is
\* back at the menu, and the loop has ended only after the choice Quit.
C14_EndsOnlyOnQuit ==
    /\ \A k \in 1..Len(log) :
          log[k].outcome = "raised" =>
              (log[k].reported /\ (k < Len(log) \/ pc = "menu"))
    /\ pc = "ended" => last.outcome = "quit"

\* C14: a handler that raised an error (an Exception) is reported and the
\* loop is back at the menu; the loop has ended only after the choice Quit,
\* after the menu prompt met the end of its input, or after the user
\* interrupted the program.
C14_LoopResilience ==
    /\ \A k \in 1..Len(log) :
          log[k].outcome = "raised" =>
              (log[k].reported /\ (k < Len(log) \/ pc = "menu"))
    /\ pc = "ended" => last.outcome \in {"quit", "eof", "interrupt"}

\* A handler raised, the loop took the next choice, which was Quit, and
\* ended.
C14_Witness ==
    /\ Len(log) = 2
    /\ log[1].outcome = "raised" /\ log[1].reported
    /\ log[2].choice = "9"
    /\ pc = "ended"

\* The entry that get_entry returned to the handler of the last turn.
Edited ==
    IF storage = "sqlite" THEN SqlGetEntry(preRows, last.inputs.entry_id)
    ELSE JsonGetEntry(preDoc, last.inputs.entry_id)

Blank(typed) == Len(Strip(typed)) = 0

\* The update that the edit of entry e with the inputs `in` is to issue:
\* the typed value of a field, or the stored one when bodyBlank / Blank says
\* that the input is blank.
ExpectedUpdate(e, in, bodyBlank) ==
    [date |-> IF Blank(in.date_in) THEN e.date ELSE parse_date(Strip(in.date_in)).date,
     title |-> IF Blank(in.title_in) THEN e.title ELSE Strip(in.title_in),
     body |-> IF bodyBlank THEN e.body ELSE in.body_in,
     mood |-> IF Blank(in.mood_in) THEN e.mood ELSE Strip(in.mood_in),
     tags |-> IF Blank(in.tags_in) THEN e.tags ELSE parse_tags(Strip(in.tags_in))]

InvalidDate(typed) == ~Blank(typed) /\ ~parse_date(Strip(typed)).ok

\* C20 as stated, an input being blank when it holds nothing but spaces: the
\* edit of a stored entry issues one update with the typed value of every
\* field whose input is not blank and the stored value of every other field;
\* the edit of an unknown id or with a date that does not parse issues no
\* update and leaves the store as it was.
C20_EditAsStated ==
    (Len(log) > 0 /\ last.choice = "6" /\ last.outcome = "returned") =>
        IF Len(Edited) = 0 \/ InvalidDate(last.inputs.date_in)
        THEN last.calls = <<>> /\ rows = preRows /\ doc = preDoc
        ELSE /\ Len(last.calls) = 1
             /\ last.calls[1].op = "update"
             /\ last.calls[1].id = last.inputs.entry_id
             /\ last.calls[1].entry
                   = ExpectedUpdate(Edited[1], last.inputs, Blank(last.inputs.body_in))

\* C20: the same, date, title, mood and tags being blank when they hold
\* nothing but spaces and taken without the spaces around them, the body
\* being blank only when nothing was typed.
C20_Edit ==
    (Len(log) > 0 /\ last.choice = "6" /\ last.outcome = "returned") =>
        IF Len(Edited) = 0 \/ InvalidDate(last.inputs.date_in)
        THEN last.calls = <<>> /\ rows = preRows /\ doc = preDoc
        ELSE /\ Len(last.calls) = 1
             /\ last.calls[1].op = "update"
             /\ last.calls[1].id = last.inputs.entry_id
             /\ last.calls[1].entry
                   = ExpectedUpdate(Edited[1], last.inputs, Len(last.inputs.body_in) = 0)
             /\ last.calls[1].ret = RetBool(TRUE)

\* An entry with a title, a body, a mood and tags was edited with a new body
\* and new tags and blank inputs for the date, the title and the mood.
C20_Witness ==
    /\ Len(log) = 2
    /\ log[1].choice = "1" /\ Len(log[1].calls) = 1
    /\ Len(log[1].calls[1].entry.body) > 0
    /\ last.choice = "6" /\ Len(last.calls) = 1
    /\ Blank(last.inputs.date_in) /\ Blank(last.inputs.title_in)
    /\ Blank(last.inputs.mood_in)
    /\ last.inputs.body_in = <<"o">>
    /\ last.inputs.tags_in = <<"y", ",", " ", "x">>
    /\ Edited[1].title = <<"a">>
    /\ LET now == IF storage = "sqlite" THEN SqlGetEntry(rows, last.inputs.entry_id)
                  ELSE JsonGetEntry(doc, last.inputs.entry_id)
       IN  /\ now[1].title = <<"a">>
           /\ now[1].body = <<"o">>
           /\ now[1].tags = << <<"y">>, <<"x">> >>

-----------------------------------------------------------------------------
\* The store of the backend in use, before the last turn and now.
StoreBefore == IF storage = "sqlite" THEN preRows ELSE preDoc
StoreNow == IF storage = "sqlite" THEN rows ELSE doc

\* The text is "yes", whatever the case of its letters.
IsYes(typed) ==
    /\ Len(typed) = 3
    /\ typed[1] \in {"y", "Y"} /\ typed[2] \in {"e", "E"} /\ typed[3] \in {"s", "S"}

\* C21: a delete action whose confirmation input is not "yes", ignoring
\* case, makes no storage call and leaves the store as it was; a delete
\* action that called the storage delete had that confirmation and called
\* it once, for the id typed; and no turn of the loop removes an entry
\* unless it is a delete action with that confirmation, and then it removes
\* no entry but the one typed.
C21_DeleteConfirmation ==
    Len(log) > 0 =>
        /\ (last.choice = "7" /\ last.outcome = "returned") =>
               IF IsYes(last.inputs.confirm)
               THEN /\ Len(last.calls) = 1
                    /\ last.calls[1].op = "delete"
                    /\ last.calls[1].id = last.inputs.entry_id
               ELSE last.calls = <<>> /\ rows = preRows /\ doc = preDoc
        /\ \A id \in Ids(StoreBefore) \ Ids(StoreNow) :
               /\ last.choice = "7" /\ last.outcome = "returned"
               /\ IsYes(last.inputs.confirm)
               /\ id = last.inputs.entry_id

\* An entry was added and then deleted with the confirmation "YES": the
\* storage delete was called, returned true, and the entry is gone.
C21_Witness ==
    /\ Len(log) = 2
    /\ log[1].choice = "1" /\ Len(log[1].calls) = 1
    /\ last.choice = "7"
    /\ last.inputs.confirm = <<"Y", "E", "S">>
    /\ Len(last.calls) = 1 /\ last.calls[1].ret = RetBool(TRUE)
    /\ last.inputs.entry_id \in Ids(StoreBefore)
    /\ last.inputs.entry_id \notin Ids(StoreNow)

====
